---- MODULE Spec2Model ----
(***************************************************************************)
(* Model of the cyclic index (src/math/cyclic_group.rs, src/lib.rs) and of *)
(* the two bounded histories built on it: Cycle (src/history.rs, iterated  *)
(* oldest first) and History (src/lib.rs, iterated newest first), and of   *)
(* the item cursor Cycle<T: Copy> of src/lib.rs.                           *)
(*                                                                         *)
(* usize is modelled as an unsigned word of WordBits bits; Wrapping<usize> *)
(* arithmetic is arithmetic modulo 2^WordBits.  A method is an operator    *)
(* from the receiver (and arguments) to a record                           *)
(*   [self |-> receiver afterwards, ret |-> returned value, fault |-> ...] *)
(* where fault is TRUE when the call panics.  Option<T> is a sequence of   *)
(* length 0 (None) or 1 (Some).  A Vec or boxed slice is a sequence whose  *)
(* slot i (0-based) is element i + 1.                                      *)
(***************************************************************************)
EXTENDS Integers, Sequences, FiniteSets, TLC

\* ------------------------------------------------------------------ bounds
WordBits == 4
MaxSize == 5
MaxCap == 3
MaxPush == 5
MaxItems == 3
MaxItemValue == 2

Word == 2 ^ WordBits
Usize == 0 .. (Word - 1)

\* ----------------------------------------------------------------- helpers
None == << >>
Some(x) == << x >>
IsSome(o) == Len(o) = 1
Unwrap(o) == o[1]

Min(x, y) == IF x < y THEN x ELSE y
LastN(s, k) == SubSeq(s, Len(s) - k + 1, Len(s))
Reverse(s) == [i \in 1 .. Len(s) |-> s[Len(s) + 1 - i]]
Range(s) == {s[i] : i \in 1 .. Len(s)}
NoDuplicate(s) == \A i, j \in 1 .. Len(s) : s[i] = s[j] => i = j

WrappingAdd(x, y) == (x + y) % Word
WrappingSub(x, y) == (x - y) % Word

\* ------------------------------------- math/cyclic_group.rs :: CyclicIndex
CyclicIndex_new(index, size) == [index |-> index, size |-> size]

value(self) == self.index

clone(self) == self

increment_by(self, num) ==
    IF self.size = 0
    THEN [self |-> self, ret |-> self, fault |-> TRUE]
    ELSE LET s == [self EXCEPT !.index = WrappingAdd(self.index, num) % self.size]
         IN  [self |-> s, ret |-> clone(s), fault |-> FALSE]

decrement_by(self, num) ==
    IF self.size = 0
    THEN [self |-> self, ret |-> self, fault |-> TRUE]
    ELSE LET s == [self EXCEPT !.index = WrappingSub(self.index, num) % self.size]
         IN  [self |-> s, ret |-> clone(s), fault |-> FALSE]

increment(self) == increment_by(self, 1)

decrement(self) == decrement_by(self, 1)

\* add taking its operand by reference and incrementing it in place
add_inplace(self, rhs) ==
    LET r == increment_by(self, rhs)
    IN  [self |-> r.self, ret |-> r.ret, fault |-> r.fault]

add(self, rhs) ==
    LET r == increment_by(clone(self), rhs)
    IN  [self |-> self, ret |-> r.ret, fault |-> r.fault]

sub(self, rhs) ==
    LET r == decrement_by(clone(self), rhs)
    IN  [self |-> self, ret |-> r.ret, fault |-> r.fault]

add_assign(self, rhs) ==
    LET r == increment_by(self, rhs)
    IN  [self |-> r.self, ret |-> r.self, fault |-> r.fault]

sub_assign(self, rhs) ==
    LET r == decrement_by(self, rhs)
    IN  [self |-> r.self, ret |-> r.self, fault |-> r.fault]

eq(self, other) == value(self) = value(other)

\* -------------------------------------------------- lib.rs :: CyclicIndex
Lib_CyclicIndex_new(index, size) == [index |-> index, size |-> size]

\* increment that steps by two
Lib_increment_by_two(self) ==
    IF self.size = 0
    THEN [self |-> self, ret |-> self.index, fault |-> TRUE]
    ELSE LET s == [self EXCEPT !.index = WrappingAdd(self.index, 2) % self.size]
         IN  [self |-> s, ret |-> s.index, fault |-> FALSE]

Lib_increment(self) ==
    IF self.size = 0
    THEN [self |-> self, ret |-> self.index, fault |-> TRUE]
    ELSE LET s == [self EXCEPT !.index = WrappingAdd(self.index, 1) % self.size]
         IN  [self |-> s, ret |-> s.index, fault |-> FALSE]

Lib_index(self) == self.index

Lib_decrement(self) ==
    IF self.size = 0
    THEN [self |-> self, ret |-> self.index, fault |-> TRUE]
    ELSE LET s == [self EXCEPT !.index = WrappingSub(self.index, 1) % self.size]
         IN  [self |-> s, ret |-> s.index, fault |-> FALSE]

Lib_increment_by(self, num) ==
    IF self.size = 0
    THEN [self |-> self, ret |-> self.index, fault |-> TRUE]
    ELSE LET s == [self EXCEPT !.index = WrappingAdd(self.index, num) % self.size]
         IN  [self |-> s, ret |-> s.index, fault |-> FALSE]

\* lib.rs:76 adds num, as increment_by does
Lib_decrement_by(self, num) ==
    IF self.size = 0
    THEN [self |-> self, ret |-> self.index, fault |-> TRUE]
    ELSE LET s == [self EXCEPT !.index = WrappingAdd(self.index, num) % self.size]
         IN  [self |-> s, ret |-> s.index, fault |-> FALSE]

\* ------------------------------------------------- history.rs :: Cycle<T>
\* CycleDefault::default() / HistoryDefault::history_default(): the value
\* that pre-fills the storage.  Pushed values are 1, 2, 3, ...
Placeholder == 0

Cycle_new(capacity) ==
    [values |-> [i \in 1 .. capacity |-> Placeholder],
     start  |-> None,
     next   |-> CyclicIndex_new(0, capacity)]

\* clear that forgets to reset start
Cycle_clear_keeps_start(self) == [self |-> self, fault |-> FALSE]

Cycle_clear(self) == [self |-> [self EXCEPT !.start = None], fault |-> FALSE]

Cycle_push(self, v) ==
    LET matched ==
            IF IsSome(self.start)
            THEN LET start == Unwrap(self.start)
                     n1 == add(self.next, 1)
                 IN  IF n1.fault
                     THEN [self |-> self, fault |-> TRUE]
                     ELSE IF eq(start, n1.ret)
                          THEN LET s1 == add(start, 1)
                               IN  [self  |-> [self EXCEPT !.start = Some(s1.ret)],
                                    fault |-> s1.fault]
                          ELSE [self |-> self, fault |-> FALSE]
            ELSE [self |-> [self EXCEPT !.start = Some(self.next)], fault |-> FALSE]
        m == matched.self
        slot == value(m.next)
    IN  IF matched.fault \/ slot >= Len(m.values)
        THEN [self |-> m, fault |-> TRUE]
        ELSE LET w == [m EXCEPT !.values[slot + 1] = v]
                 n == add_assign(w.next, 1)
             IN  [self |-> [w EXCEPT !.next = n.self], fault |-> n.fault]

\* IntoIterator for &Cycle<T>
Cycle_into_iter(self) == [current |-> self.start]

\* the number of values a Cycle keeps: push retires the oldest value when
\* start == next + 1, that is when one slot is still unused
Cycle_retains(self) == IF Len(self.values) = 0 THEN 0 ELSE Len(self.values) - 1

\* next that rewinds to start when it reaches the end
CycleIntoIterator_next_rewinds(history, self) ==
    IF ~IsSome(self.current)
    THEN [self |-> self, ret |-> None, fault |-> FALSE]
    ELSE LET current == Unwrap(self.current)
         IN  IF eq(current, history.next)
             THEN [self |-> [self EXCEPT !.current = history.start],
                   ret |-> None, fault |-> FALSE]
             ELSE IF value(current) >= Len(history.values)
                  THEN [self |-> self, ret |-> None, fault |-> TRUE]
                  ELSE LET item == history.values[value(current) + 1]
                           c1 == add(current, 1)
                       IN  [self  |-> [self EXCEPT !.current = Some(c1.ret)],
                            ret   |-> Some(item),
                            fault |-> c1.fault]

CycleIntoIterator_next(history, self) ==
    IF ~IsSome(self.current)
    THEN [self |-> self, ret |-> None, fault |-> FALSE]
    ELSE LET current == Unwrap(self.current)
         IN  IF eq(current, history.next)
             THEN [self |-> self, ret |-> None, fault |-> FALSE]
             ELSE IF value(current) >= Len(history.values)
                  THEN [self |-> self, ret |-> None, fault |-> TRUE]
                  ELSE LET item == history.values[value(current) + 1]
                           c1 == add(current, 1)
                       IN  [self  |-> [self EXCEPT !.current = Some(c1.ret)],
                            ret   |-> Some(item),
                            fault |-> c1.fault]

\* ---------------------------------------------------- lib.rs :: History<T>
History_new(capacity) ==
    [values |-> [i \in 1 .. capacity |-> Placeholder],
     count  |-> 0,
     ptr    |-> Lib_CyclicIndex_new(0, capacity)]

\* clear that resets count but leaves the cursor where it is
History_clear_keeps_ptr(self) ==
    [self |-> [self EXCEPT !.count = 0], fault |-> FALSE]

\* clear that rewinds the cursor but forgets to reset count
History_clear_keeps_count(self) ==
    [self |-> [self EXCEPT !.ptr.index = 0], fault |-> FALSE]

History_clear(self) ==
    [self |-> [self EXCEPT !.count = 0, !.ptr.index = 0], fault |-> FALSE]

\* push that counts every push, also into a full history
History_push_always_counts(self, v) ==
    LET c == [self EXCEPT !.count = self.count + 1]
    IN  IF c.ptr.index >= Len(c.values)
        THEN [self |-> c, fault |-> TRUE]
        ELSE LET w == [c EXCEPT !.values[c.ptr.index + 1] = v]
                 p == Lib_increment(w.ptr)
             IN  [self |-> [w EXCEPT !.ptr = p.self], fault |-> p.fault]

History_push(self, v) ==
    LET capacity == Len(self.values)
        c == IF self.count < capacity
             THEN [self EXCEPT !.count = self.count + 1]
             ELSE self
    IN  IF c.ptr.index >= Len(c.values)
        THEN [self |-> c, fault |-> TRUE]
        ELSE LET w == [c EXCEPT !.values[c.ptr.index + 1] = v]
                 p == Lib_increment(w.ptr)
             IN  [self |-> [w EXCEPT !.ptr = p.self], fault |-> p.fault]

\* IntoIterator for &History<T>
History_into_iter(self) == [index |-> 0]

\* the slot computed from the cursor itself instead of the slot before it
History_slot_off_by_one(history, index) ==
    LET len == Len(history.values)
        t == len + history.ptr.index - index
    IN  IF t < 0 \/ len = 0
        THEN [ret |-> 0, fault |-> TRUE]
        ELSE [ret |-> t % len, fault |-> FALSE]

\* the slot computed without adding len first
History_slot_no_len(history, index) ==
    LET len == Len(history.values)
        t == history.ptr.index - 1 - index
    IN  IF t < 0 \/ len = 0
        THEN [ret |-> 0, fault |-> TRUE]
        ELSE [ret |-> t % len, fault |-> FALSE]

\* the slot read by the call number index + 1 of next(); the subtractions
\* are on usize and panic when they go below zero
History_slot(history, index) ==
    LET len == Len(history.values)
        t == len + history.ptr.index - 1 - index
    IN  IF t < 0 \/ len + history.ptr.index - 1 < 0 \/ len = 0
        THEN [ret |-> 0, fault |-> TRUE]
        ELSE [ret |-> t % len, fault |-> FALSE]

HistoryIntoIterator_next(history, self) ==
    IF self.index >= history.count
    THEN [self |-> self, ret |-> None, fault |-> FALSE]
    ELSE LET slot == History_slot(history, self.index)
         IN  IF slot.fault
             THEN [self |-> self, ret |-> None, fault |-> TRUE]
             ELSE [self  |-> [self EXCEPT !.index = self.index + 1],
                   ret   |-> Some(history.values[slot.ret + 1]),
                   fault |-> FALSE]

\* ---------------------------------------------- lib.rs :: Cycle<T: Copy>
Lib_Cycle_new(items) == [items |-> items, index |-> 0]

Lib_Cycle_get(self) ==
    IF self.index >= Len(self.items)
    THEN [self |-> self, ret |-> None, fault |-> TRUE]
    ELSE [self |-> self, ret |-> Some(self.items[self.index + 1]), fault |-> FALSE]

Lib_Cycle_next(self) ==
    IF Len(self.items) = 0
    THEN [self |-> self, ret |-> None, fault |-> TRUE]
    ELSE LET s == [self EXCEPT !.index = (self.index + 1) % Len(self.items)]
         IN  [self |-> s, ret |-> Some(s.items[s.index + 1]), fault |-> FALSE]

\* prev that forgets the - 1
Lib_Cycle_prev_no_step(self) ==
    IF Len(self.items) = 0
    THEN [self |-> self, ret |-> None, fault |-> TRUE]
    ELSE LET s == [self EXCEPT !.index =
                       (self.index + Len(self.items)) % Len(self.items)]
         IN  [self |-> s, ret |-> Some(s.items[s.index + 1]), fault |-> FALSE]

Lib_Cycle_prev(self) ==
    IF Len(self.items) = 0 \/ self.index + Len(self.items) - 1 < 0
    THEN [self |-> self, ret |-> None, fault |-> TRUE]
    ELSE LET s == [self EXCEPT !.index =
                       (self.index + Len(self.items) - 1) % Len(self.items)]
         IN  [self |-> s, ret |-> Some(s.items[s.index + 1]), fault |-> FALSE]

\* --------------------------------------------------------------- variables
VARIABLES
    a,          \* a CyclicIndex (cyclic_group.rs) owned by the caller
    b,          \* a second CyclicIndex: a copy of a, or the result of a + d / a - d
    ret,        \* the value returned by the last method called on a
    op,         \* the last operation: its name, its delta, a and b before it
    idx_fault   \* TRUE once an operation on a has panicked

VARIABLES
    cyc,         \* a Cycle<T> (history.rs): [values, next, start]
    cyc_fault,   \* TRUE once a call on cyc has panicked
    cit,         \* None, or Some(the CycleIntoIterator borrowing cyc)
    cit_out,     \* the items that iterator has yielded so far
    cit_done,    \* TRUE once that iterator has returned None
    cyc_n,       \* number of pushes into cyc since construction
    cyc_log,     \* the values pushed into cyc since the last clear
    cyc_cleared, \* TRUE once cyc has been cleared
    cit_prev     \* Some(what the last complete iteration yielded) when no
                 \* push or clear came after it, else None

VARIABLES
    his,         \* a History<T> (lib.rs): [values, ptr, count]
    his_fault,   \* TRUE once a call on his has panicked
    hit,         \* None, or Some(the HistoryIntoIterator borrowing his)
    hit_out,     \* the items that iterator has yielded so far
    hit_done,    \* TRUE once that iterator has returned None
    his_n,       \* number of pushes into his since construction
    his_log,     \* the values pushed into his since the last clear
    his_cleared  \* TRUE once his has been cleared

VARIABLES
    li,          \* a CyclicIndex of lib.rs
    li_ret,      \* the usize returned by the last method called on li
    li_op,       \* the last operation on li: its name, its num, li before it
    li_fault     \* TRUE once an operation on li has panicked

VARIABLES
    cur,         \* a Cycle<T: Copy> of lib.rs: [items, index]
    cur_ret,     \* the item returned by the last get / next / prev
    cur_op,      \* the last call: its name and cur.index before it
    cur_run,     \* the current run of consecutive next() calls:
                 \* [from |-> index before the run, len |-> calls so far]
    cur_fault    \* TRUE once a call on cur has panicked

idx_vars == << a, b, ret, op, idx_fault >>

lib_vars == << li, li_ret, li_op, li_fault >>

cur_vars == << cur, cur_ret, cur_op, cur_run, cur_fault >>

cyc_vars == << cyc, cyc_fault, cit, cit_out, cit_done, cyc_n, cyc_log, cyc_cleared, cit_prev >>

his_vars == << his, his_fault, hit, hit_out, hit_done, his_n, his_log, his_cleared >>

vars == << idx_vars, cyc_vars, his_vars, lib_vars, cur_vars >>

\* the objects a specification does not exercise stay as constructed
IdleIdx ==
    /\ a = CyclicIndex_new(0, 1)
    /\ b = a
    /\ ret = a
    /\ op = [name |-> "new", d |-> 0, pre_a |-> a, pre_b |-> a]
    /\ idx_fault = FALSE

IdleLib ==
    /\ li = Lib_CyclicIndex_new(0, 1)
    /\ li_ret = 0
    /\ li_op = [name |-> "new", num |-> 0, pre |-> li]
    /\ li_fault = FALSE

IdleCur ==
    /\ cur = Lib_Cycle_new(<< 1 >>)
    /\ cur_ret = None
    /\ cur_op = [name |-> "new", pre |-> 0]
    /\ cur_run = [from |-> 0, len |-> 0]
    /\ cur_fault = FALSE

CycInit(capacity) ==
    /\ cyc = Cycle_new(capacity)
    /\ cyc_fault = FALSE
    /\ cit = None
    /\ cit_out = << >>
    /\ cit_done = FALSE
    /\ cyc_n = 0
    /\ cyc_log = << >>
    /\ cyc_cleared = FALSE
    /\ cit_prev = None

HisInit(capacity) ==
    /\ his = History_new(capacity)
    /\ his_fault = FALSE
    /\ hit = None
    /\ hit_out = << >>
    /\ hit_done = FALSE
    /\ his_n = 0
    /\ his_log = << >>
    /\ his_cleared = FALSE

\* ------------------------------------------------ cyclic index: operations
OpRec(name, d) == [name |-> name, d |-> d, pre_a |-> a, pre_b |-> b]

\* let mut a = CyclicIndex::new(position, modulus); let b = a;
InitIdx ==
    /\ \E position \in Usize, modulus \in 0 .. MaxSize :
          a = CyclicIndex_new(position, modulus)
    /\ b = a
    /\ ret = a
    /\ op = [name |-> "new", d |-> 0, pre_a |-> a, pre_b |-> a]
    /\ idx_fault = FALSE
    /\ CycInit(1)
    /\ HisInit(1)
    /\ IdleLib
    /\ IdleCur

\* a method of a that takes &mut self
InPlace(name, d, r) ==
    /\ ~idx_fault
    /\ op' = OpRec(name, d)
    /\ a' = r.self
    /\ ret' = IF r.fault THEN ret ELSE r.ret
    /\ idx_fault' = r.fault
    /\ b' = b
    /\ UNCHANGED << cyc_vars, his_vars, lib_vars, cur_vars >>

OpIncrement == InPlace("increment", 1, increment(a))

OpDecrement == InPlace("decrement", 1, decrement(a))

OpIncrementBy == \E d \in Usize : InPlace("increment_by", d, increment_by(a, d))

OpDecrementBy == \E d \in Usize : InPlace("decrement_by", d, decrement_by(a, d))

OpAddAssign == \E d \in Usize : InPlace("add_assign", d, add_assign(a, d))

OpSubAssign == \E d \in Usize : InPlace("sub_assign", d, sub_assign(a, d))

\* let b = a + d;  /  let b = a - d;
Pure(name, d, r) ==
    /\ ~idx_fault
    /\ op' = OpRec(name, d)
    /\ a' = r.self
    /\ b' = IF r.fault THEN b ELSE r.ret
    /\ idx_fault' = r.fault
    /\ ret' = ret
    /\ UNCHANGED << cyc_vars, his_vars, lib_vars, cur_vars >>

OpAdd == \E d \in Usize : Pure("add", d, add(a, d))

OpSub == \E d \in Usize : Pure("sub", d, sub(a, d))

\* let b = a;  (CyclicIndex is Copy)
OpCopy ==
    /\ ~idx_fault
    /\ op' = OpRec("copy", 0)
    /\ b' = clone(a)
    /\ UNCHANGED << a, ret, idx_fault >>
    /\ UNCHANGED << cyc_vars, his_vars, lib_vars, cur_vars >>

NextIdx ==
    \/ OpIncrement
    \/ OpDecrement
    \/ OpIncrementBy
    \/ OpDecrementBy
    \/ OpAddAssign
    \/ OpSubAssign
    \/ OpAdd
    \/ OpSub
    \/ OpCopy

SpecIdx == InitIdx /\ [][NextIdx]_vars

\* ------------------------------------------------- histories: operations
InitHist ==
    /\ IdleIdx
    /\ IdleLib
    /\ IdleCur
    /\ \E capacity \in 0 .. MaxCap : CycInit(capacity)
    /\ \E capacity \in 0 .. MaxCap : HisInit(capacity)

\* cyc.push(v); push takes &mut self, so no iterator borrows cyc
CyclePush ==
    /\ ~cyc_fault
    /\ cit = None
    /\ cyc_n < MaxPush
    /\ LET r == Cycle_push(cyc, cyc_n + 1)
       IN  /\ cyc' = r.self
           /\ cyc_fault' = r.fault
           /\ cyc_n' = cyc_n + 1
           /\ cyc_log' = Append(cyc_log, cyc_n + 1)
    /\ cit_prev' = None
    /\ UNCHANGED << cit, cit_out, cit_done, cyc_cleared >>
    /\ UNCHANGED << idx_vars, his_vars, lib_vars, cur_vars >>

\* cyc.clear()
CycleClear ==
    /\ ~cyc_fault
    /\ cit = None
    /\ LET r == Cycle_clear(cyc)
       IN  /\ cyc' = r.self
           /\ cyc_fault' = r.fault
    /\ cyc_log' = << >>
    /\ cyc_cleared' = TRUE
    /\ cit_prev' = None
    /\ UNCHANGED << cit, cit_out, cit_done, cyc_n >>
    /\ UNCHANGED << idx_vars, his_vars, lib_vars, cur_vars >>

\* let it = (&cyc).into_iter();
CycleIntoIter ==
    /\ ~cyc_fault
    /\ cit = None
    /\ cit' = Some(Cycle_into_iter(cyc))
    /\ cit_out' = << >>
    /\ cit_done' = FALSE
    /\ UNCHANGED << cyc, cyc_fault, cyc_n, cyc_log, cyc_cleared, cit_prev >>
    /\ UNCHANGED << idx_vars, his_vars, lib_vars, cur_vars >>

\* it.next()
CycleIterNext ==
    /\ ~cyc_fault
    /\ IsSome(cit)
    /\ LET r == CycleIntoIterator_next(cyc, Unwrap(cit))
       IN  /\ cit' = Some(r.self)
           /\ cyc_fault' = r.fault
           /\ cit_out' = IF IsSome(r.ret) THEN Append(cit_out, Unwrap(r.ret)) ELSE cit_out
           /\ cit_done' = (~r.fault /\ ~IsSome(r.ret))
    /\ UNCHANGED << cyc, cyc_n, cyc_log, cyc_cleared, cit_prev >>
    /\ UNCHANGED << idx_vars, his_vars, lib_vars, cur_vars >>

\* drop(it)
CycleIterDrop ==
    /\ IsSome(cit)
    /\ cit' = None
    /\ cit_out' = << >>
    /\ cit_done' = FALSE
    /\ cit_prev' = IF cit_done THEN Some(cit_out) ELSE cit_prev
    /\ UNCHANGED << cyc, cyc_fault, cyc_n, cyc_log, cyc_cleared >>
    /\ UNCHANGED << idx_vars, his_vars, lib_vars, cur_vars >>

\* his.push(v)
HistoryPush ==
    /\ ~his_fault
    /\ hit = None
    /\ his_n < MaxPush
    /\ LET r == History_push(his, his_n + 1)
       IN  /\ his' = r.self
           /\ his_fault' = r.fault
           /\ his_n' = his_n + 1
           /\ his_log' = Append(his_log, his_n + 1)
    /\ UNCHANGED << hit, hit_out, hit_done, his_cleared >>
    /\ UNCHANGED << idx_vars, cyc_vars, lib_vars, cur_vars >>

\* his.clear()
HistoryClear ==
    /\ ~his_fault
    /\ hit = None
    /\ LET r == History_clear(his)
       IN  /\ his' = r.self
           /\ his_fault' = r.fault
    /\ his_log' = << >>
    /\ his_cleared' = TRUE
    /\ UNCHANGED << hit, hit_out, hit_done, his_n >>
    /\ UNCHANGED << idx_vars, cyc_vars, lib_vars, cur_vars >>

\* let it = (&his).into_iter();
HistoryIntoIter ==
    /\ ~his_fault
    /\ hit = None
    /\ hit' = Some(History_into_iter(his))
    /\ hit_out' = << >>
    /\ hit_done' = FALSE
    /\ UNCHANGED << his, his_fault, his_n, his_log, his_cleared >>
    /\ UNCHANGED << idx_vars, cyc_vars, lib_vars, cur_vars >>

\* it.next()
HistoryIterNext ==
    /\ ~his_fault
    /\ IsSome(hit)
    /\ LET r == HistoryIntoIterator_next(his, Unwrap(hit))
       IN  /\ hit' = Some(r.self)
           /\ his_fault' = r.fault
           /\ hit_out' = IF IsSome(r.ret) THEN Append(hit_out, Unwrap(r.ret)) ELSE hit_out
           /\ hit_done' = (~r.fault /\ ~IsSome(r.ret))
    /\ UNCHANGED << his, his_n, his_log, his_cleared >>
    /\ UNCHANGED << idx_vars, cyc_vars, lib_vars, cur_vars >>

\* drop(it)
HistoryIterDrop ==
    /\ IsSome(hit)
    /\ hit' = None
    /\ hit_out' = << >>
    /\ hit_done' = FALSE
    /\ UNCHANGED << his, his_fault, his_n, his_log, his_cleared >>
    /\ UNCHANGED << idx_vars, cyc_vars, lib_vars, cur_vars >>

NextHist ==
    \/ CyclePush
    \/ CycleClear
    \/ CycleIntoIter
    \/ CycleIterNext
    \/ CycleIterDrop
    \/ HistoryPush
    \/ HistoryClear
    \/ HistoryIntoIter
    \/ HistoryIterNext
    \/ HistoryIterDrop

SpecHist == InitHist /\ [][NextHist]_vars

\* ------------------------------------- lib.rs :: CyclicIndex, operations
IdleHist ==
    /\ CycInit(1)
    /\ HisInit(1)

\* let mut li = CyclicIndex::new(index, size);
InitLib ==
    /\ IdleIdx
    /\ IdleHist
    /\ IdleCur
    /\ \E index \in Usize, size \in 0 .. MaxSize :
          li = Lib_CyclicIndex_new(index, size)
    /\ li_ret = Lib_index(li)
    /\ li_op = [name |-> "new", num |-> 0, pre |-> li]
    /\ li_fault = FALSE

LibCall(name, num, r) ==
    /\ ~li_fault
    /\ li_op' = [name |-> name, num |-> num, pre |-> li]
    /\ li' = r.self
    /\ li_ret' = IF r.fault THEN li_ret ELSE r.ret
    /\ li_fault' = r.fault
    /\ UNCHANGED << idx_vars, cyc_vars, his_vars, cur_vars >>

LibIncrement == LibCall("increment", 1, Lib_increment(li))

LibDecrement == LibCall("decrement", 1, Lib_decrement(li))

LibIncrementBy == \E num \in Usize : LibCall("increment_by", num, Lib_increment_by(li, num))

LibDecrementBy == \E num \in Usize : LibCall("decrement_by", num, Lib_decrement_by(li, num))

NextLib ==
    \/ LibIncrement
    \/ LibDecrement
    \/ LibIncrementBy
    \/ LibDecrementBy

SpecLib == InitLib /\ [][NextLib]_vars

\* ---------------------------------- lib.rs :: Cycle<T: Copy>, operations
ItemLists ==
    UNION {[1 .. n -> 1 .. MaxItemValue] : n \in 0 .. MaxItems}

\* let mut cur = Cycle::new(&items);
InitCur ==
    /\ IdleIdx
    /\ IdleHist
    /\ IdleLib
    /\ \E items \in ItemLists : cur = Lib_Cycle_new(items)
    /\ cur_ret = None
    /\ cur_op = [name |-> "new", pre |-> 0]
    /\ cur_run = [from |-> 0, len |-> 0]
    /\ cur_fault = FALSE

\* cur.get()
CurGet ==
    /\ ~cur_fault
    /\ LET r == Lib_Cycle_get(cur)
       IN  /\ cur' = r.self
           /\ cur_ret' = r.ret
           /\ cur_fault' = r.fault
    /\ cur_op' = [name |-> "get", pre |-> cur.index]
    /\ cur_run' = cur_run
    /\ UNCHANGED << idx_vars, cyc_vars, his_vars, lib_vars >>

\* cur.next()
CurNext ==
    /\ ~cur_fault
    /\ LET r == Lib_Cycle_next(cur)
       IN  /\ cur' = r.self
           /\ cur_ret' = r.ret
           /\ cur_fault' = r.fault
    /\ cur_op' = [name |-> "next", pre |-> cur.index]
    /\ cur_run' = IF cur_run.len < Len(cur.items)
                  THEN [cur_run EXCEPT !.len = cur_run.len + 1]
                  ELSE [from |-> cur.index, len |-> 1]
    /\ UNCHANGED << idx_vars, cyc_vars, his_vars, lib_vars >>

\* cur.prev()
CurPrev ==
    /\ ~cur_fault
    /\ LET r == Lib_Cycle_prev(cur)
       IN  /\ cur' = r.self
           /\ cur_ret' = r.ret
           /\ cur_fault' = r.fault
           /\ cur_run' = [from |-> r.self.index, len |-> 0]
    /\ cur_op' = [name |-> "prev", pre |-> cur.index]
    /\ UNCHANGED << idx_vars, cyc_vars, his_vars, lib_vars >>

NextCur ==
    \/ CurGet
    \/ CurNext
    \/ CurPrev

SpecCur == InitCur /\ [][NextCur]_vars

\* ================================================================ claims
InRange(ci) == ci.size > 0 /\ 0 <= ci.index /\ ci.index < ci.size

\* C1 (checked under SpecHist): a Cycle of capacity c >= 1 that was given n
\* pushes and no clear yields, oldest first, exactly the last min(n, c)
\* pushed values in push order; a full Cycle yields c values, none twice.
C1_OldestFirstLastMin ==
    (Len(cyc.values) >= 1 /\ ~cyc_cleared /\ cit_done) =>
        LET c == Len(cyc.values)
            n == Len(cyc_log)
        IN  /\ cit_out = LastN(cyc_log, Min(n, c))
            /\ NoDuplicate(cit_out)
            /\ (n >= c => Len(cit_out) = c)

\* C2 (checked under SpecHist): a History of capacity c >= 1 that was given
\* n pushes and no clear has count = min(n, c) and yields exactly that many
\* values, newest first: the i-th value yielded is the one stored at slot
\* (ptr - i) mod c, which is the i-th most recently pushed value.
C2_NewestFirst ==
    (Len(his.values) >= 1 /\ ~his_cleared) =>
        LET c == Len(his.values)
            n == Len(his_log)
            expect == Reverse(LastN(his_log, Min(n, c)))
        IN  /\ his.count = Min(n, c)
            /\ Len(hit_out) <= Len(expect)
            /\ hit_out = SubSeq(expect, 1, Len(hit_out))
            /\ \A i \in 1 .. Len(hit_out) :
                  hit_out[i] = his.values[((his.ptr.index - i) % c) + 1]
            /\ IsSome(hit) => Len(hit_out) = Unwrap(hit).index
            /\ hit_done => hit_out = expect

C2_Witness ==
    /\ Len(his.values) = 3
    /\ ~his_cleared
    /\ his_log = << 1, 2, 3, 4 >>
    /\ hit_done
    /\ hit_out = << 4, 3, 2 >>

\* C3 (checked under SpecHist): when a Cycle and a History of the same
\* capacity c >= 1 were given the same pushes and no clear, the complete
\* newest-first iteration is the reverse of the complete oldest-first one.
C3_ReverseOfOldestFirst ==
    ( /\ Len(cyc.values) >= 1
      /\ Len(his.values) = Len(cyc.values)
      /\ ~cyc_cleared /\ ~his_cleared
      /\ cyc_log = his_log
      /\ cit_done /\ hit_done ) =>
        hit_out = Reverse(cit_out)

\* C4 (checked under SpecHist): whatever pushes and clears came before,
\* every value an iterator of a history of capacity >= 1 yields was pushed
\* since the last clear (or construction): never the placeholder, never a
\* value left in the storage from before a clear.
C4_OnlyPushedSinceClear ==
    /\ Len(cyc.values) >= 1 =>
          \A i \in 1 .. Len(cit_out) :
              cit_out[i] \in Range(cyc_log) /\ cit_out[i] # Placeholder
    /\ Len(his.values) >= 1 =>
          \A i \in 1 .. Len(hit_out) :
              hit_out[i] \in Range(his_log) /\ hit_out[i] # Placeholder

C4_Witness ==
    /\ cyc_cleared /\ cit_done /\ cit_out # << >>
    /\ \E i \in 1 .. Len(cyc.values) :
          cyc.values[i] # Placeholder /\ cyc.values[i] \notin Range(cyc_log)
    /\ his_cleared /\ hit_done /\ hit_out # << >>
    /\ \E i \in 1 .. Len(his.values) :
          his.values[i] # Placeholder /\ his.values[i] \notin Range(his_log)
    /\ \E i \in 1 .. Len(his.values) : his.values[i] = Placeholder

\* C5 (checked under SpecIdx): 0 <= index < size in every state of a
\* CyclicIndex built by new(position, modulus) with modulus > 0, right
\* after construction and after every operation.
C5_IndexInRange ==
    a.size > 0 => (0 <= a.index /\ a.index < a.size)

\* C6 (checked under SpecIdx): decrement_by(delta) on an in-range index of
\* size > 0 leaves index = (index - delta) mod size, the mathematical
\* residue.
C6_DecrementByResidue ==
    (op.name = "decrement_by" /\ InRange(op.pre_a)) =>
        /\ ~idx_fault
        /\ a.index = (op.pre_a.index - op.d) % op.pre_a.size

\* C7 (checked under SpecIdx): increment_by(delta) on an in-range index of
\* size > 0 does not panic and leaves index = (index + delta) mod size, the
\* mathematical residue, for every delta of the word.
C7_IncrementByResidue ==
    (op.name = "increment_by" /\ InRange(op.pre_a)) =>
        /\ ~idx_fault
        /\ a.index = (op.pre_a.index + op.d) % op.pre_a.size

\* C8 (checked under SpecIdx): increment_by(delta) followed at once by
\* decrement_by(delta) returns an in-range index of size > 0 to the value
\* it had before the two calls.
C8_IncrementThenDecrement ==
    [][ ( /\ op.name = "increment_by"
          /\ InRange(op.pre_a)
          /\ op'.name = "decrement_by"
          /\ op'.d = op.d ) =>
            a'.index = op.pre_a.index ]_vars

\* C9 (checked under SpecIdx): a + d and a - d leave a as it was and give a
\* new index equal to a incremented / decremented by d; increment,
\* decrement, increment_by, decrement_by, += and -= change a itself, and a
\* copy b taken before is not affected.
C9_PureVersusInPlace ==
    /\ op.name \in {"add", "sub"} =>
          /\ a = op.pre_a
          /\ ~idx_fault =>
                b = IF op.name = "add"
                    THEN increment_by(op.pre_a, op.d).self
                    ELSE decrement_by(op.pre_a, op.d).self
    /\ op.name \in {"increment", "increment_by", "add_assign"} =>
          /\ b = op.pre_b
          /\ ~idx_fault =>
                a.index = WrappingAdd(op.pre_a.index, op.d) % op.pre_a.size
    /\ op.name \in {"decrement", "decrement_by", "sub_assign"} =>
          /\ b = op.pre_b
          /\ ~idx_fault =>
                a.index = WrappingSub(op.pre_a.index, op.d) % op.pre_a.size
    /\ op.name \in {"increment", "decrement"} => op.d = 1

C9_Witness ==
    /\ op.name = "add"
    /\ op.d = 1
    /\ ~idx_fault
    /\ a.index = 0
    /\ b.index = 1
    /\ op.pre_b.index = 0

\* C10 (checked under SpecHist): after a clear a history of capacity >= 1
\* is empty (History: count = 0; both: a complete iteration yields nothing)
\* and the n values pushed since the clear, n not above what the history
\* keeps, are exactly what a complete iteration yields (oldest first for
\* Cycle, newest first for History), with nothing pushed before the clear.
C10_ClearEmpties ==
    /\ (Len(cyc.values) >= 1 /\ cyc_cleared /\ cit_done
           /\ Len(cyc_log) <= Cycle_retains(cyc)) =>
          cit_out = cyc_log
    /\ (Len(his.values) >= 1 /\ his_cleared) =>
          /\ his.count = Min(Len(his_log), Len(his.values))
          /\ (his_log = << >> => his.count = 0 /\ hit_out = << >>)
          /\ (hit_done /\ Len(his_log) <= Len(his.values)) =>
                hit_out = Reverse(his_log)

C10_Witness ==
    /\ cyc_cleared /\ cit_done
    /\ Len(cyc_log) = 2 /\ cyc_n > 2
    /\ cit_out = cyc_log
    /\ his_cleared /\ hit_done
    /\ Len(his_log) = 2 /\ his_n > 2
    /\ hit_out = Reverse(his_log)

\* a step that is a push into cyc / into his, a step that is a clear of cyc
CycPushStep == cyc_n' = cyc_n + 1
HisPushStep == his_n' = his_n + 1
CycClearStep == cyc_cleared' /\ cyc_log' = << >> /\ (~cyc_cleared \/ cyc_log # << >>)

\* C11 (checked under SpecHist): in a History of capacity c >= 1,
\* 0 <= count <= c and count = min(c, pushes since the last clear or
\* construction); a push adds 1 to count unless count is already c.
C11_CountSaturates ==
    /\ [](Len(his.values) >= 1 =>
            /\ 0 <= his.count /\ his.count <= Len(his.values)
            /\ his.count = Min(Len(his.values), Len(his_log)))
    /\ [][(HisPushStep /\ Len(his.values) >= 1) =>
            his'.count = IF his.count = Len(his.values)
                         THEN his.count
                         ELSE his.count + 1]_vars

C11_Witness ==
    /\ Len(his.values) = 1
    /\ Len(his_log) >= 2
    /\ his.count = 1
    /\ his.values = << his_n >>

\* C12 (checked under SpecHist): on a history of capacity >= 1 no push,
\* clear or next() panics: no slot out of bounds, no remainder by zero, and
\* len + ptr - 1 - index of the newest-first iterator never goes below 0.
C12_NoFault ==
    /\ Len(cyc.values) >= 1 => ~cyc_fault
    /\ Len(his.values) >= 1 =>
          /\ ~his_fault
          /\ \A index \in 0 .. his.count - 1 :
                /\ Len(his.values) + his.ptr.index - 1 - index >= 0
                /\ ~History_slot(his, index).fault

C12_Witness ==
    /\ Len(his.values) = 3
    /\ his.ptr.index = 0
    /\ his.count = 3
    /\ hit_done
    /\ Len(hit_out) = 3
    /\ Len(cyc.values) = 3
    /\ cyc_n > 3
    /\ cit_done

\* C13 (checked under SpecHist): no history of capacity 0 is ever handed
\* out (construction fails with InvalidCapacity), so there is no history
\* of capacity 0 on which a push panics.
C13_NoCapacityZeroFault ==
    /\ ~(Len(cyc.values) = 0 /\ cyc_fault)
    /\ ~(Len(his.values) = 0 /\ his_fault)

\* C14 (checked under SpecIdx): CyclicIndex::new(position, modulus) holds
\* position mod modulus, hence an in-range index, and no index of size 0
\* exists on which an increment or decrement divides by zero.
C14_NewNormalises ==
    /\ (op.name = "new" /\ a.size > 0) => a.index < a.size
    /\ ~(a.size = 0 /\ idx_fault)

\* C15 (checked under SpecHist): in a Cycle of capacity >= 1, after every
\* push start is Some(s) with s != next.
C15_StartDiffersFromNext ==
    (Len(cyc.values) >= 1 /\ cyc_log # << >>) =>
        /\ IsSome(cyc.start)
        /\ ~eq(Unwrap(cyc.start), cyc.next)

C17_WriteCursor ==
    /\ []( /\ (Len(cyc.values) >= 1 /\ cyc_log # << >>) =>
                 cyc.values[((cyc.next.index - 1) % Len(cyc.values)) + 1]
                     = cyc_log[Len(cyc_log)]
           /\ (Len(his.values) >= 1 /\ his_log # << >>) =>
                 his.values[((his.ptr.index - 1) % Len(his.values)) + 1]
                     = his_log[Len(his_log)] )
    /\ [][(CycPushStep /\ Len(cyc.values) >= 1) =>
            /\ cyc'.values = [cyc.values EXCEPT ![cyc.next.index + 1] = cyc_n']
            /\ cyc'.next.index = (cyc.next.index + 1) % Len(cyc.values)]_vars
    /\ [][(HisPushStep /\ Len(his.values) >= 1) =>
            /\ his'.values = [his.values EXCEPT ![his.ptr.index + 1] = his_n']
            /\ his'.ptr.index = (his.ptr.index + 1) % Len(his.values)]_vars

C17_Witness ==
    /\ Len(cyc.values) = 3 /\ cyc_n = 4 /\ cyc.next.index = 1
    /\ cyc.values[1] = 4
    /\ Len(his.values) = 3 /\ his_n = 3 /\ his.ptr.index = 0
    /\ his.values[3] = 3

\* C18 (checked under SpecLib): decrement_by(num) of the CyclicIndex of
\* lib.rs leaves index = (index - num) mod size and returns it, and
\* decrement_by(1) gives what decrement() gives.
C18_LibDecrementBy ==
    (li_op.name = "decrement_by" /\ InRange(li_op.pre)) =>
        /\ ~li_fault
        /\ li.index = (li_op.pre.index - li_op.num) % li_op.pre.size
        /\ li_ret = li.index
        /\ li_op.num = 1 => li.index = Lib_decrement(li_op.pre).self.index

\* C19 (checked under SpecHist): an iterator of a Cycle yields at most
\* capacity items before it returns None, and once it has returned None it
\* returns None again; next() leaves the Cycle as it is; and a complete
\* iteration yields what the previous complete iteration yielded when no
\* push or clear came between them.
C19_FiniteRestartable ==
    /\ []( /\ Len(cit_out) <= Len(cyc.values)
           /\ (cit_done /\ IsSome(cit_prev)) => cit_out = Unwrap(cit_prev) )
    /\ [][(cit_done /\ IsSome(cit) /\ IsSome(cit')) =>
            (cit_done' /\ cit_out' = cit_out)]_vars
    /\ [][(IsSome(cit) /\ IsSome(cit')) => cyc' = cyc]_vars

C19_Witness ==
    /\ Len(cyc.values) = 3
    /\ IsSome(cit_prev)
    /\ cit_done
    /\ Len(cit_out) = 2
    /\ cit_out = Unwrap(cit_prev)

\* C20 (checked under SpecCur): for the item cursor of lib.rs built from a
\* non-empty list, index stays in [0, items.len()) and no call panics;
\* get() returns the item the last next / prev returned; next() then
\* prev(), and prev() then next(), restore index; and items.len() next()
\* calls in a row come back to the index (and item) they started from.
C20_ItemCursor ==
    /\ [](Len(cur.items) >= 1 =>
            /\ ~cur_fault
            /\ 0 <= cur.index /\ cur.index < Len(cur.items)
            /\ cur_op.name \in {"next", "prev"} =>
                  /\ cur_ret = Some(cur.items[cur.index + 1])
                  /\ Lib_Cycle_get(cur).ret = cur_ret
            /\ cur_run.len = Len(cur.items) => cur.index = cur_run.from)
    /\ [][(Len(cur.items) >= 1 /\ cur_op'.name = "get" /\ cur_op.name # "new") =>
            cur_ret' = cur_ret]_vars
    /\ [][(Len(cur.items) >= 1 /\ cur_op.name = "next" /\ cur_op'.name = "prev") =>
            cur'.index = cur_op.pre]_vars
    /\ [][(Len(cur.items) >= 1 /\ cur_op.name = "prev" /\ cur_op'.name = "next") =>
            cur'.index = cur_op.pre]_vars

C20_Witness ==
    /\ Len(cur.items) = 3
    /\ cur_op.name = "next"
    /\ cur_run.len = 3
    /\ cur_run.from = 1
    /\ cur.index = 1
    /\ cur_ret = Some(cur.items[2])

====
